---- MODULE Spec2Model ----
(***************************************************************************)
(* Nova / J.A.R.V.I.S HUD (src/nov.py, src/nova.py): the three QTimer      *)
(* driven handlers of NovaHUD (animate, sampleStats, tick), the gauges     *)
(* (NeonBar), the ring field (AnimatedRings), the camera panel             *)
(* (CameraWidget, nova.py only) and window teardown.                       *)
(*                                                                         *)
(* Number representation.  Python floats are modelled in exact fixed       *)
(* point: a phase p is the integer p * 10000 (so 1.0 is 10000 and the      *)
(* step 0.0075 is 75), a percentage v is the integer v * 10 (tenths), a    *)
(* throughput label "x.y MB/s" is the integer 10 * x.y, byte counters are  *)
(* plain integers.                                                         *)
(***************************************************************************)
EXTENDS Integers, Sequences, FiniteSets, TLC

\* ------------------------------------------------------------ bounds
\* Animate ticks explored by Spec (the short, wide specification).
MaxTicks == 3
\* Animate ticks explored by SpecClock (the long run: the phase wraps at tick 134).
MaxClockTicks == 140
\* Seconds the model lets pass between two reads of the network counters.
MaxElapsed == 2

\* ------------------------------------------------------------ program constants
\* animate: self.rings.phase + 0.0075, in 1/10000
PhaseStep == 75
\* animate: % 1.0, in 1/10000
PhaseUnit == 10000
\* sampleStats: / 1024.0 / 1024.0
BytesPerMB == 1048576

\* self.animTimer.start(16): the interval of the animate timer in milliseconds
AnimInterval == 16

Bars == {"cpu_util", "cpu_temp", "battery", "mem", "disk"}

\* ------------------------------------------------------------ helpers
Max2(a, b) == IF a >= b THEN a ELSE b

Min2(a, b) == IF a <= b THEN a ELSE b

\* clamp(v, lo, hi)
clamp(v, lo, hi) == Max2(lo, Min2(hi, v))

\* a percentage in tenths
Pct(n) == n * 10

\* round-half-even of the rational n / d (d > 0, n >= 0): what "{x:.1f}" does to a
\* float whose value is exactly n / d
RoundHalfEven(n, d) ==
    LET q == n \div d
        r == n % d
    IN  IF 2 * r < d THEN q
        ELSE IF 2 * r > d THEN q + 1
        ELSE IF q % 2 = 0 THEN q ELSE q + 1

\* f"{b / 1024.0 / 1024.0:.1f}" as tenths of a MB/s
FmtMB(b) == RoundHalfEven(b * 10, BytesPerMB)

\* ------------------------------------------------------------ outcomes of the data sources
\* What one call into psutil (or cv2, DeepFace) can do: return a value, return
\* nothing usable, be absent from the platform, or raise.
Ok(v) == [k |-> "ok", v |-> v]

\* the call raises; v only keeps the type of the source's values
Fails(v) == [k |-> "throw", v |-> v]

Raises == Fails(0)

Nothing == [k |-> "none", v |-> 0]

NoAttr == [k |-> "noattr", v |-> 0]

\* self.last_bytes = None
None == <<>>

\* ------------------------------------------------------------ state
VARIABLES
    psutil,        \* module level: TRUE when "import psutil" succeeded, FALSE for psutil = None
    variant,       \* which of the two programs runs: "nov" (src/nov.py) or "nova" (src/nova.py)
    pc,            \* "init" (inside NovaHUD.__init__), "running" (app.exec()), "closed", "exited"
    phase,         \* AnimatedRings.phase, in 1/10000
    value,         \* NeonBar.value of each of the five bars, in tenths
    net_ip,        \* NetworkStats.ip text after "IP Address: "
    net_up,        \* NetworkStats.up text "Upload: x.y MB/s", as 10 * x.y
    net_down,      \* NetworkStats.down text "Download: x.y MB/s", as 10 * x.y
    last_bytes,    \* NovaHUD.last_bytes: None or <<bytes_sent, bytes_recv>>
    timeLbl,       \* ClockCard.timeLbl text
    dateLbl,       \* ClockCard.dateLbl text
    bigTimeLabel,  \* NovaHUD.bigTimeLabel text (nov.py)
    bigTimeDate,   \* NovaHUD.bigTimeDate text (nov.py)
    animTimer,     \* animTimer.isActive()
    statTimer,     \* statTimer.isActive()
    clockTimer,    \* clockTimer.isActive()
    camTimer,      \* CameraWidget.timer.isActive() (nova.py)
    capture,       \* CameraWidget.capture.isOpened() (nova.py)
    video_label,   \* what CameraWidget.video_label shows (nova.py)
    escaped,       \* TRUE when the last handler run ended by an exception leaving it
    ticks,         \* history: animate calls so far
    since_read,    \* history: whole seconds since the network counters were last read
    drawn          \* what the last paintEvent put on screen

hud == <<phase, value, net_ip, net_up, net_down, last_bytes, timeLbl, dateLbl,
         bigTimeLabel, bigTimeDate, escaped, since_read>>

timers == <<animTimer, statTimer, clockTimer>>

camera == <<camTimer, capture, video_label>>

vars == <<psutil, variant, pc, hud, timers, camera, ticks, drawn>>

\* The fields of the HUD the three handlers read and write, as one record; `raised`
\* is TRUE while an exception is propagating out of the handler that is running.
St ==
    [phase |-> phase, value |-> value, net_ip |-> net_ip, net_up |-> net_up,
     net_down |-> net_down, last_bytes |-> last_bytes, timeLbl |-> timeLbl,
     dateLbl |-> dateLbl, bigTimeLabel |-> bigTimeLabel, bigTimeDate |-> bigTimeDate,
     since_read |-> since_read, raised |-> FALSE]

\* The handler's result becomes the HUD's state.
Becomes(st) ==
    /\ phase' = st.phase
    /\ value' = st.value
    /\ net_ip' = st.net_ip
    /\ net_up' = st.net_up
    /\ net_down' = st.net_down
    /\ last_bytes' = st.last_bytes
    /\ timeLbl' = st.timeLbl
    /\ dateLbl' = st.dateLbl
    /\ bigTimeLabel' = st.bigTimeLabel
    /\ bigTimeDate' = st.bigTimeDate
    /\ since_read' = st.since_read
    /\ escaped' = st.raised

\* ------------------------------------------------------------ NeonBar
\* setValue without the clamp
setValueUnclamped(st, bar, v) ==
    [st EXCEPT !.value[bar] = v]

\* NeonBar.setValue: self.value = clamp(float(v), 0.0, 100.0); self.update()
setValue(st, bar, v) ==
    [st EXCEPT !.value[bar] = clamp(v, Pct(0), Pct(100))]

\* ------------------------------------------------------------ NovaHUD.animate
\* animate without the modulo
animateNoWrap(st) ==
    [st EXCEPT !.phase = st.phase + PhaseStep]

\* animate with a sixth of the step, 0.0012 a tick
animateSixthStep(st) ==
    [st EXCEPT !.phase = (st.phase + (2 * PhaseStep) \div 12) % PhaseUnit]

\* animate with a step that grows with the CPU gauge
animateByLoad(st) ==
    [st EXCEPT !.phase = (st.phase + PhaseStep + st.value["cpu_util"] \div 10) % PhaseUnit]

\* self.rings.phase = (self.rings.phase + 0.0075) % 1.0; self.rings.update()
animate(st) ==
    [st EXCEPT !.phase = (st.phase + PhaseStep) % PhaseUnit]

\* ------------------------------------------------------------ NovaHUD.sampleStats
\* sampleStats' CPU block keeping the bar as it is when the read raises
sampleCpuKeepsLast(st, s) ==
    IF psutil /\ s.cpu.k # "ok" THEN st
    ELSE [st EXCEPT !.value["cpu_util"] =
                        clamp(IF psutil THEN s.cpu.v ELSE s.rnd.cpu, Pct(0), Pct(100))]

\* cpu = psutil.cpu_percent(interval=None) if psutil else random.uniform(8,88),
\* with except: cpu = random.uniform(8,88); then self.cpu_util.setValue(cpu)
sampleCpu(st, s) ==
    LET cpu == IF psutil /\ s.cpu.k = "ok" THEN s.cpu.v ELSE s.rnd.cpu
    IN  setValue(st, "cpu_util", cpu)

\* sampleStats' temperature block without its try/except
sampleTempUncaught(st, s) ==
    IF psutil /\ s.temp.k = "throw" THEN [st EXCEPT !.raised = TRUE]
    ELSE [st EXCEPT !.value["cpu_temp"] =
                        clamp(IF psutil /\ s.temp.k = "ok"
                              THEN s.temp.v
                              ELSE Pct(48) + 12 * s.rnd.sinT + s.rnd.temp,
                              Pct(0), Pct(100))]

\* temp_c from psutil.sensors_temperatures() (first non-empty entry), None when
\* psutil is absent, the call raises or nothing is reported; then the synthetic
\* 48 + 12*sin(time.time()/6.5) + random.uniform(-2,2);
\* self.cpu_temp.setValue(clamp((temp_c/100.0)*100, 0, 100))
sampleTemp(st, s) ==
    LET temp_c == IF psutil /\ s.temp.k = "ok"
                  THEN s.temp.v
                  ELSE Pct(48) + 12 * s.rnd.sinT + s.rnd.temp
    IN  setValue(st, "cpu_temp", clamp(temp_c, Pct(0), Pct(100)))

\* batt_pct from psutil.sensors_battery() when psutil has it, None when it is
\* absent, raises or reports no battery; then the synthetic
\* 70 + 8*sin(time.time()/10.0) + random.uniform(-4,4).
\* nova.py: self.battery.setValue(clamp(batt_pct, 0, 100))
\* nov.py:  pseudo_temp = 60 + (batt_pct/100.0)*20; setValue(clamp(pseudo_temp, 0, 100))
sampleBattery(st, s) ==
    LET batt_pct == IF psutil /\ s.batt.k = "ok"
                    THEN s.batt.v
                    ELSE Pct(70) + 8 * s.rnd.sinB + s.rnd.batt
        shown == IF variant = "nov" THEN Pct(60) + (batt_pct * 20) \div 100 ELSE batt_pct
    IN  setValue(st, "battery", clamp(shown, Pct(0), Pct(100)))

\* mem_pct = psutil.virtual_memory().percent if psutil else random.uniform(22,86),
\* with except: random.uniform(22,86); self.mem.setValue(mem_pct)
sampleMem(st, s) ==
    LET mem_pct == IF psutil /\ s.mem.k = "ok" THEN s.mem.v ELSE s.rnd.mem
    IN  setValue(st, "mem", mem_pct)

\* disk_pct = psutil.disk_usage('/').percent if psutil else random.uniform(12,88),
\* with except: random.uniform(12,88); self.disk.setValue(disk_pct)
sampleDisk(st, s) ==
    LET disk_pct == IF psutil /\ s.disk.k = "ok" THEN s.disk.v ELSE s.rnd.disk
    IN  setValue(st, "disk", disk_pct)

\* An interface address as psutil reports it: `family` is 0 when the attribute is
\* missing or falsy, `dots` is str(address).count('.'), `linklocal` is
\* address.startswith("169.254").
Addr(family, address, dots, linklocal) ==
    [family |-> family, address |-> address, dots |-> dots, linklocal |-> linklocal]

\* the condition of the inner loop of the address scan
Qualifies(a) == a.family # 0 /\ a.dots = 3 /\ ~a.linklocal

\* for a in arr: if <qualifies>: ip = a.address; break
RECURSIVE scanArr(_, _, _)
scanArr(arr, j, ip) ==
    IF j > Len(arr) THEN ip
    ELSE IF Qualifies(arr[j]) THEN arr[j].address
    ELSE scanArr(arr, j + 1, ip)

\* for _, arr in addrs.items(): <scan arr>; if ip != "0.0.0.0": break
RECURSIVE scanAddrs(_, _, _)
scanAddrs(addrs, i, ip) ==
    IF i > Len(addrs) THEN ip
    ELSE LET got == scanArr(addrs[i], 1, ip)
         IN  IF got # "0.0.0.0" THEN got ELSE scanAddrs(addrs, i + 1, got)

\* with psutil: self.net.ip.setText(f"IP Address: {ip}") from net_if_addrs(), or
\* "IP Address: 0.0.0.0" when the scan raises; without: "IP Address: 192.168.1.101"
sampleIp(st, s) ==
    LET ip == IF ~psutil THEN "192.168.1.101"
              ELSE IF s.addrs.k = "ok" THEN scanAddrs(s.addrs.v, 1, "0.0.0.0")
              ELSE "0.0.0.0"
    IN  [st EXCEPT !.net_ip = ip]

\* sampleStats' counter block taking (0, 0) for a missing previous sample
sampleIoFromZero(st, s) ==
    IF ~psutil
    THEN [st EXCEPT !.net_up = RoundHalfEven(s.rnd.up, 10),
                    !.net_down = RoundHalfEven(s.rnd.down, 10)]
    ELSE IF s.io.k # "ok" THEN st
    ELSE LET nowb == s.io.v
             prev == IF st.last_bytes # None THEN st.last_bytes ELSE <<0, 0>>
         IN  [st EXCEPT !.net_up = FmtMB(nowb[1] - prev[1]),
                        !.net_down = FmtMB(nowb[2] - prev[2]),
                        !.last_bytes = nowb, !.since_read = 0]

\* sampleStats' counter block storing only the first reading it gets
sampleIoKeepsFirst(st, s) ==
    IF ~psutil
    THEN [st EXCEPT !.net_up = RoundHalfEven(s.rnd.up, 10),
                    !.net_down = RoundHalfEven(s.rnd.down, 10)]
    ELSE IF s.io.k # "ok" THEN st
    ELSE IF st.last_bytes # None
         THEN [st EXCEPT !.net_up = FmtMB(s.io.v[1] - st.last_bytes[1]),
                         !.net_down = FmtMB(s.io.v[2] - st.last_bytes[2]),
                         !.since_read = 0]
         ELSE [st EXCEPT !.last_bytes = s.io.v, !.since_read = 0]

\* with psutil: io = psutil.net_io_counters(); nowb = (sent, recv);
\*   if self.last_bytes: up/down = (nowb - last_bytes) / 1024.0 / 1024.0, both labels set;
\*   self.last_bytes = nowb;   except: pass
\* without: both labels from random.uniform, formatted "{:.1f}"
sampleIo(st, s) ==
    IF ~psutil
    THEN [st EXCEPT !.net_up = RoundHalfEven(s.rnd.up, 10),
                    !.net_down = RoundHalfEven(s.rnd.down, 10)]
    ELSE IF s.io.k # "ok" THEN st
    ELSE LET nowb == s.io.v
             shown == IF st.last_bytes # None
                      THEN [st EXCEPT !.net_up = FmtMB(nowb[1] - st.last_bytes[1]),
                                      !.net_down = FmtMB(nowb[2] - st.last_bytes[2])]
                      ELSE st
         IN  [shown EXCEPT !.last_bytes = nowb, !.since_read = 0]

\* the statements of sampleStats in program order
sampleStep(st, s, i) ==
    CASE i = 1 -> sampleCpu(st, s)
      [] i = 2 -> sampleTemp(st, s)
      [] i = 3 -> sampleBattery(st, s)
      [] i = 4 -> sampleMem(st, s)
      [] i = 5 -> sampleDisk(st, s)
      [] i = 6 -> sampleIp(st, s)
      [] OTHER -> sampleIo(st, s)

\* run the statements from the i-th on; an exception that is not caught ends the run
RECURSIVE runFrom(_, _, _)
runFrom(st, s, i) ==
    IF i > 7 \/ st.raised THEN st ELSE runFrom(sampleStep(st, s, i), s, i + 1)

\* NovaHUD.sampleStats
sampleStats(st, s) == runFrom(st, s, 1)

\* ------------------------------------------------------------ clock
\* now.strftime("%H:%M:%S"), now in seconds
HMS(now) == <<(now \div 3600) % 24, (now \div 60) % 60, now % 60>>

\* now.strftime("%A, %d %b %Y"): the weekday and the day (counted from day 0, a Thursday)
DateText(now) == <<((now \div 86400) + 4) % 7, now \div 86400>>

\* ClockCard.tick
clockTick(st, now) ==
    [st EXCEPT !.timeLbl = HMS(now), !.dateLbl = DateText(now)]

\* tick that also restarts the animation
tickRestartsPhase(st, now1, now2) ==
    [st EXCEPT !.timeLbl = HMS(now2), !.dateLbl = DateText(now2), !.phase = 0]

\* NovaHUD.tick.  nov.py reads the wall clock once for the big labels (now1) and
\* ClockCard.tick reads it again (now2); nova.py only calls ClockCard.tick.
tick(st, now1, now2) ==
    IF variant = "nov"
    THEN clockTick([st EXCEPT !.bigTimeLabel = HMS(now1), !.bigTimeDate = DateText(now1)], now2)
    ELSE clockTick(st, now2)

\* ------------------------------------------------------------ CameraWidget (nova.py)
\* what update_frame draws for one detected face: the rectangle, and the emotion
\* text unless DeepFace.analyze raised
annotate(face) ==
    [box |-> TRUE, text |-> IF face.k = "ok" THEN face.v ELSE ""]

\* CameraWidget.update_frame: ret, frame = self.capture.read(); if not ret: return;
\* every face is annotated; self.video_label.setPixmap(...).  A capture that is not
\* open reads (False, None).
update_frame(label, opened, f) ==
    IF ~(opened /\ f.ret) THEN label
    ELSE [frame |-> TRUE, faces |-> [i \in 1..Len(f.faces) |-> annotate(f.faces[i])]]

\* stop_camera releasing the capture and leaving the frame timer running
stop_cameraReleaseOnly(cam) ==
    [cam EXCEPT !.capture = FALSE]

\* CameraWidget.stop_camera: self.timer.stop(); if self.capture.isOpened(): self.capture.release()
stop_camera(cam) ==
    [cam EXCEPT !.timer = FALSE, !.capture = FALSE]

\* NovaHUD.closeEvent (nova.py): self.camera_view.stop_camera(); event.accept().
\* nov.py defines no closeEvent: QMainWindow's accepts the event and touches nothing.
closeEvent(cam) ==
    IF variant = "nova" THEN stop_camera(cam) ELSE cam

\* ------------------------------------------------------------ paintEvent
\* NeonBar.style as NovaHUD.__init__ constructs the bars
BarStyle(bar) ==
    CASE bar = "mem" -> "pink"
      [] bar = "disk" -> "green"
      [] OTHER -> "rainbow"

\* the gradient stops NeonBar.paintEvent sets for a style: <<position in %, r, g, b>>
Gradient(style) ==
    CASE style = "rainbow" -> << <<0, 30, 220, 140>>, <<50, 255, 200, 60>>, <<100, 255, 90, 80>> >>
      [] style = "pink" -> << <<0, 255, 100, 220>>, <<100, 200, 50, 255>> >>
      [] style = "green" -> << <<0, 40, 220, 120>>, <<100, 20, 160, 100>> >>
      [] OTHER -> << <<0, 80, 200, 255>>, <<100, 150, 120, 255>> >>

\* NeonBar.paintEvent: txt = f"{int(self.value)}{self.unit if self.unit else '%'}"
barText(v, unit) == <<v \div 10, IF unit = "" THEN "%" ELSE unit>>

\* a gauge whose text rounds the value to the nearest whole number
barPaintRounds(st, bar, width) ==
    [widget |-> bar,
     out |-> <<(width - 16) * st.value[bar], Gradient(BarStyle(bar)),
               <<(st.value[bar] + 5) \div 10, "%">> >>]

\* NeonBar.paintEvent on a widget `width` pixels wide: the track is the widget less
\* 8 pixels on each side, the fill is bar.width() * (self.value/100.0) (here in
\* 1/1000 pixel), the text is that of barText (self.unit is "")
barPaint(st, bar, width) ==
    [widget |-> bar,
     out |-> <<(width - 16) * st.value[bar], Gradient(BarStyle(bar)),
               barText(st.value[bar], "")>>]

\* the phase offsets of the five rings of AnimatedRings.paintEvent, in 1/10000
RingOffsets == <<0, 1900, 3600, 5400, 7200>>

\* a ring base that turns faster the larger the ring's offset
ringBaseOwnSpeed(p, offset) == (p + (p * offset) \div PhaseUnit + offset) % PhaseUnit

\* _draw_ring: base = (self.phase + offset) % 1.0
ringBase(p, offset) == (p + offset) % PhaseUnit

\* _draw_ring: the two arcs drawn with p.drawArc(rect, int(-start*16), int(-span*16)),
\* start = (base + i*0.48) * 360.0, span = 200.0 then 120.0
ringArcs(base) ==
    << <<-((base * 5760) \div PhaseUnit), -3200>>,
       <<-(((base + 4800) * 5760) \div PhaseUnit), -1920>> >>

\* _draw_ring: dots = 36
dots == 36

\* The fraction of a turn t of an orbit dot counts in 1/TurnUnit. k/dots is whole at
\* this scale, and so is base*0.08 for every base that is a multiple of 25/10000, which
\* the step 0.0075 and the five ring offsets make of every base.
TurnUnit == 45000

\* 1.0 as the arguments of smoothstep count it: x, edge0, edge1 in 1/One
One == 22500

\* smoothstep(edge0, edge1, x): t = clamp((x - edge0)/(edge1 - edge0), 0, 1);
\* return t*t*(3 - 2*t). The result counts in 1/(One*One), rounded down; the product
\* t*t*(3 - 2*t) is taken in two halves so that no intermediate exceeds 31 bits.
smoothstep(edge0, edge1, x) ==
    LET t == clamp(((x - edge0) * One) \div (edge1 - edge0), 0, One)
        sq == t * t
        z == 3 * One - 2 * t
    IN  (sq \div One) * z + ((sq % One) * z) \div One

\* _draw_ring: t = (k/dots + base*0.08) % 1.0, in 1/TurnUnit
dotT(base, k) == ((k * TurnUnit) \div dots + (base * 360) \div 1000) % TurnUnit

\* the opacity of a dot whose peak does not reach full height: abs(0.5 - t) not doubled
dotAlphaHalfRise(t) ==
    LET x == One - (IF t >= One THEN t - One ELSE One - t) \div 2
    IN  smoothstep(0, One, x) \div ((One * One) \div 80) + 40

\* _draw_ring: a = int(80 * smoothstep(0.0, 1.0, 1.0-abs(0.5-t)*2)) + 40
dotAlpha(t) ==
    LET x == One - (IF t >= One THEN t - One ELSE One - t)
    IN  smoothstep(0, One, x) \div ((One * One) \div 80) + 40

\* the viewport's centre and the field radius, lengths in 1/10000 pixel:
\* cx, cy = rect.center(); radius = min(rect.width(), rect.height()) * 0.42
viewCenter(view) == <<(view[1] - 1) \div 2, (view[2] - 1) \div 2>>

viewRadius(view) == Min2(view[1], view[2]) * 4200

\* the rings of paintEvent: radius factor in hundredths, pen width in tenths of a pixel
RingRadii == <<102, 86, 72, 59, 46>>

RingWidths == <<90, 60, 40, 30, 22>>

\* _draw_ring: QRectF(center.x()-radius, center.y()-radius, radius*2, radius*2)
ringRect(center, radius) ==
    <<center[1] * 10000 - radius, center[2] * 10000 - radius, 2 * radius, 2 * radius>>

\* _draw_ring: one dot, drawn at angle t*2*pi and distance d = radius - width*1.6 from
\* the centre (x = cx + cos(ang)*d, y = cy + sin(ang)*d), with opacity a
ringDot(radius, width, base, k) ==
    LET t == dotT(base, k)
    IN  [t |-> t, d |-> radius - width * 1600, a |-> dotAlpha(t)]

\* _draw_ring(p, center, radius, width, offset, color)
drawRing(st, center, radius, width, offset) ==
    LET base == ringBase(st.phase, offset)
    IN  [base |-> base,
         rect |-> ringRect(center, radius),
         arcs |-> ringArcs(base),
         dots |-> [k \in 0..(dots - 1) |-> ringDot(radius, width, base, k)]]

\* a ring field whose dots glow with the processor load
ringsPaintByLoad(st, view) ==
    [widget |-> "rings",
     out |-> <<view, viewCenter(view),
               [i \in 1..Len(RingOffsets) |->
                   [base |-> ringBase(st.phase, RingOffsets[i]),
                    rect |-> ringRect(viewCenter(view), (viewRadius(view) * RingRadii[i]) \div 100),
                    arcs |-> ringArcs(ringBase(st.phase, RingOffsets[i])),
                    dots |-> [k \in 0..(dots - 1) |->
                                 [t |-> dotT(ringBase(st.phase, RingOffsets[i]), k),
                                  d |-> (viewRadius(view) * RingRadii[i]) \div 100
                                            - RingWidths[i] * 1600,
                                  a |-> dotAlpha(dotT(ringBase(st.phase, RingOffsets[i]), k))
                                            + st.value["cpu_util"] \div 10]]]]>>]

\* AnimatedRings.paintEvent: for r, w, off, col in rings: self._draw_ring(...)
ringsPaint(st, view) ==
    [widget |-> "rings",
     out |-> <<view, viewCenter(view),
               [i \in 1..Len(RingOffsets) |->
                   drawRing(st, viewCenter(view), (viewRadius(view) * RingRadii[i]) \div 100,
                            RingWidths[i], RingOffsets[i])]>>]

\* ------------------------------------------------------------ inputs
\* The random.uniform draws and the sin(time.time()/..) values of one sampleStats
\* run: percentages and jitters in tenths, sines in tenths, throughputs in 1/100 MB/s.
RndBase ==
    [cpu |-> 80, temp |-> -20, batt |-> 40, mem |-> 220, disk |-> 880,
     up |-> 125, down |-> 1825, sinT |-> 10, sinB |-> -10]

\* network counter readings <<bytes_sent, bytes_recv>>
Io0 == <<0, 0>>

Io1 == <<1048576, 10485760>>

Io2 == <<2097152, 20971520>>

Io3 == <<2359296, 21757952>>

Lan == << <<Addr(17, "aa:bb:cc:dd:ee:ff", 0, FALSE), Addr(2, "169.254.7.7", 3, TRUE)>>,
          <<Addr(0, "10.9.9.9", 3, FALSE), Addr(2, "10.0.0.5", 3, FALSE)>> >>

\* one run's readings with every source answering
BaseSample ==
    [cpu |-> Ok(655), temp |-> Ok(415), batt |-> Ok(355), mem |-> Ok(505),
     disk |-> Ok(755), addrs |-> Ok(Lan), io |-> Ok(Io1), rnd |-> RndBase]

CpuOutcomes == {Raises, Ok(0), Ok(1000), Ok(1200), Ok(-50)}

TempOutcomes == {Raises, Nothing, Ok(1050), Ok(-50)}

BattOutcomes == {NoAttr, Raises, Nothing, Ok(1000)}

MemOutcomes == {Raises, Ok(1010)}

DiskOutcomes == {Raises, Ok(0)}

AddrOutcomes == {Fails(<<>>), Ok(<<>>)}

IoOutcomes == {Fails(<<>>), Ok(Io0), Ok(Io2), Ok(Io3)}

RndOutcomes == {[RndBase EXCEPT !.cpu = 880, !.up = 175, !.sinT = -10]}

\* every source failing at once
AllFail ==
    [cpu |-> Raises, temp |-> Raises, batt |-> Raises, mem |-> Raises,
     disk |-> Raises, addrs |-> Fails(<<>>), io |-> Fails(<<>>), rnd |-> RndBase]

\* the readings Spec draws from: BaseSample with one source varied, and AllFail
Samples ==
    {BaseSample, AllFail}
    \cup {[BaseSample EXCEPT !.cpu = o] : o \in CpuOutcomes}
    \cup {[BaseSample EXCEPT !.temp = o] : o \in TempOutcomes}
    \cup {[BaseSample EXCEPT !.batt = o] : o \in BattOutcomes}
    \cup {[BaseSample EXCEPT !.mem = o] : o \in MemOutcomes}
    \cup {[BaseSample EXCEPT !.disk = o] : o \in DiskOutcomes}
    \cup {[BaseSample EXCEPT !.addrs = o] : o \in AddrOutcomes}
    \cup {[BaseSample EXCEPT !.io = o] : o \in IoOutcomes}
    \cup {[AllFail EXCEPT !.rnd = o] : o \in RndOutcomes}

\* the readings of the long-run specifications
FewSamples == {BaseSample, [BaseSample EXCEPT !.cpu = Raises]}

\* an idle processor and a full disk
EdgeSample == [BaseSample EXCEPT !.cpu = Ok(Pct(0)), !.disk = Ok(Pct(100))]

RenderSamples == FewSamples \cup {EdgeSample}

\* wall-clock readings, in seconds: one second before and at midnight of day 1
Clocks == {86399, 86400}

\* camera frames: no frame, a frame without faces, a frame with two faces of which
\* the second makes DeepFace.analyze raise
Frames ==
    {[ret |-> FALSE, faces |-> <<>>], [ret |-> TRUE, faces |-> <<>>],
     [ret |-> TRUE, faces |-> <<Ok("Happy"), Fails("")>>]}

\* widget widths in pixels
Widths == {16, 216}

\* sizes of the ring field, from its minimum size up
Views == {<<520, 520>>, <<720, 560>>}

\* The network counters of the operating system only grow (a counter that resets
\* or wraps between two reads is left out).
Grows(s) ==
    s.io.k = "ok" /\ last_bytes # None =>
        s.io.v[1] >= last_bytes[1] /\ s.io.v[2] >= last_bytes[2]

\* ------------------------------------------------------------ initial state
\* NovaHUD.__init__ up to "self.last_bytes = None": the widgets hold their
\* constructor values, the three timers are started, the camera (nova.py) has its
\* timer started and its capture opened or not.
Init ==
    /\ psutil \in BOOLEAN
    /\ variant \in {"nov", "nova"}
    /\ pc = "init"
    /\ phase = 0
    /\ value = [b \in Bars |->
                   CASE b = "cpu_util" -> Pct(65)
                     [] b = "cpu_temp" -> Pct(62)
                     [] b = "battery" -> Pct(72)
                     [] b = "mem" -> Pct(50)
                     [] OTHER -> Pct(75)]
    /\ net_ip = "0.0.0.0"
    /\ net_up = 0
    /\ net_down = 0
    /\ last_bytes = None
    /\ timeLbl = <<>>
    /\ dateLbl = <<>>
    /\ bigTimeLabel = <<0, 0, 0>>
    /\ bigTimeDate = <<>>
    /\ animTimer = TRUE
    /\ statTimer = TRUE
    /\ clockTimer = TRUE
    /\ camTimer = (variant = "nova")
    /\ capture \in IF variant = "nova" THEN BOOLEAN ELSE {FALSE}
    /\ video_label = [frame |-> FALSE, faces |-> <<>>]
    /\ escaped = FALSE
    /\ ticks = 0
    /\ since_read = 0
    /\ drawn = [widget |-> "none", out |-> <<>>]

\* ------------------------------------------------------------ actions
\* the event loop of app.exec() is delivering timer and paint events
Delivering == pc \in {"running", "closed"}

\* the end of NovaHUD.__init__: self.sampleStats(); self.tick()
ConstructOn(S) ==
    /\ pc = "init"
    /\ \E s \in S, now1 \in Clocks, now2 \in Clocks :
          /\ now1 <= now2
          /\ LET sampled == sampleStats(St, s)
             IN  IF sampled.raised
                 THEN Becomes(sampled) /\ pc' = "exited"
                 ELSE Becomes(tick(sampled, now1, now2)) /\ pc' = "running"
    /\ UNCHANGED <<psutil, variant, timers, camera, ticks, drawn>>

\* animTimer.timeout -> NovaHUD.animate
AnimateUpTo(n) ==
    /\ Delivering /\ animTimer
    /\ ticks < n
    /\ Becomes(animate(St))
    /\ ticks' = ticks + 1
    /\ UNCHANGED <<psutil, variant, pc, timers, camera, drawn>>

\* statTimer.timeout -> NovaHUD.sampleStats with the readings s, at least a second
\* after the last read
SampleStatsWith(s) ==
    /\ Delivering /\ statTimer
    /\ since_read >= 1
    /\ Grows(s)
    /\ UNCHANGED <<psutil, variant, pc, timers, camera, ticks, drawn>>
    /\ Becomes(sampleStats(St, s))

SampleStatsOn(S) == \E s \in S : SampleStatsWith(s)

\* clockTimer.timeout -> NovaHUD.tick
Tick ==
    /\ Delivering /\ clockTimer
    /\ \E now1 \in Clocks, now2 \in Clocks : now1 <= now2 /\ Becomes(tick(St, now1, now2))
    /\ UNCHANGED <<psutil, variant, pc, timers, camera, ticks, drawn>>

\* CameraWidget.timer.timeout -> CameraWidget.update_frame
UpdateFrame ==
    /\ Delivering /\ camTimer
    /\ \E f \in Frames : video_label' = update_frame(video_label, capture, f)
    /\ UNCHANGED <<psutil, variant, pc, hud, timers, camTimer, capture, ticks, drawn>>

\* the user closes the window: closeEvent runs, the window closes and the
\* application is asked to quit
CloseEvent ==
    /\ pc = "running"
    /\ LET cam == closeEvent([timer |-> camTimer, capture |-> capture])
       IN  camTimer' = cam.timer /\ capture' = cam.capture
    /\ pc' = "closed"
    /\ UNCHANGED <<psutil, variant, hud, timers, video_label, ticks, drawn>>

\* main: app.exec() returns and sys.exit ends the process
Exit ==
    /\ pc = "closed"
    /\ pc' = "exited"
    /\ UNCHANGED <<psutil, variant, hud, timers, camera, ticks, drawn>>

\* a second passes without a read of the network counters
TimePasses ==
    /\ Delivering
    /\ since_read < MaxElapsed
    /\ since_read' = since_read + 1
    /\ UNCHANGED <<psutil, variant, pc, phase, value, net_ip, net_up, net_down, last_bytes,
                   timeLbl, dateLbl, bigTimeLabel, bigTimeDate, escaped, timers, camera,
                   ticks, drawn>>

\* a paint event reaches one of the bars
PaintBar ==
    /\ Delivering
    /\ \E b \in Bars, w \in Widths : drawn' = barPaint(St, b, w)
    /\ UNCHANGED <<psutil, variant, pc, hud, timers, camera, ticks>>

\* a paint event reaches the ring field
PaintRings ==
    /\ Delivering
    /\ UNCHANGED <<psutil, variant, pc, hud, timers, camera, ticks>>
    /\ \E view \in Views : drawn' = ringsPaint(St, view)

\* ------------------------------------------------------------ specifications
\* The program with every source of readings varied, a few animate ticks.
Next ==
    \/ ConstructOn(Samples)
    \/ AnimateUpTo(MaxTicks)
    \/ SampleStatsOn(Samples)
    \/ Tick
    \/ UpdateFrame
    \/ CloseEvent
    \/ Exit
    \/ TimePasses

Spec == Init /\ [][Next]_vars

\* The handlers and the paint events together, on few readings.
NextRender ==
    \/ ConstructOn(RenderSamples)
    \/ AnimateUpTo(MaxTicks)
    \/ SampleStatsOn(RenderSamples)
    \/ Tick
    \/ TimePasses
    \/ PaintBar
    \/ PaintRings

SpecRender == Init /\ [][NextRender]_vars

\* The long run of the animation clock, past the wrap of the phase.
NextClock ==
    \/ ConstructOn(FewSamples)
    \/ AnimateUpTo(MaxClockTicks)
    \/ SampleStatsOn(FewSamples)
    \/ Tick
    \/ TimePasses

SpecClock == Init /\ [][NextClock]_vars

\* ============================================================ claims
\* ------------------------------------------------------------ C1
ProbeValues == {-50, 0, 5, 655, 1000, 1200}

\* C1: every gauge's stored value lies in [0,100], and setValue(v) on any bar
\* stores v itself for v in [0,100], 0 for v below 0 and 100 for v above 100.
C1_GaugeClamped ==
    /\ \A b \in Bars : value[b] >= Pct(0) /\ value[b] <= Pct(100)
    /\ \A b \in Bars, v \in ProbeValues :
          LET stored == setValue(St, b, v).value[b]
          IN  /\ (v >= Pct(0) /\ v <= Pct(100)) => stored = v
              /\ v < Pct(0) => stored = Pct(0)
              /\ v > Pct(100) => stored = Pct(100)

\* a memory reading of 101.0 has been stored as 100.0
C1_Witness == psutil /\ pc = "running" /\ value["mem"] = Pct(100)

\* ------------------------------------------------------------ C2
\* C2: after N animate ticks, with sampleStats and clock ticks interleaved, the
\* phase is (N * 0.0075) mod 1.0, and it is always in [0,1).
C2_PhaseLaw ==
    /\ phase = (ticks * PhaseStep) % PhaseUnit
    /\ phase >= 0 /\ phase < PhaseUnit

\* the phase has wrapped (tick 134: 1.005 -> 0.005) with readings and clock ticks around
C2_Witness ==
    ticks = 134 /\ phase = 50 /\ value["cpu_util"] = 80 /\ psutil /\ timeLbl = HMS(86400)

\* ------------------------------------------------------------ C3
\* C3: only animate changes the phase, and it leaves the gauges, the network labels
\* and last_bytes alone; only sampleStats changes a gauge, and it leaves the phase
\* alone; the clock tick and the paint events change neither.
C3_SingleWriter ==
    [][/\ phase' # phase => ticks' = ticks + 1
       /\ ticks' # ticks =>
             /\ value' = value
             /\ <<net_ip, net_up, net_down>>' = <<net_ip, net_up, net_down>>
             /\ last_bytes' = last_bytes
       /\ value' # value => SampleStatsOn(RenderSamples) \/ ConstructOn(RenderSamples)
       /\ SampleStatsOn(RenderSamples) => phase' = phase
       /\ (Tick \/ PaintBar \/ PaintRings) => phase' = phase /\ value' = value]_vars

\* animate, sampleStats, the clock tick and both paint handlers have run
C3_Witness ==
    /\ ticks >= 1 /\ psutil /\ value["cpu_util"] = 80 /\ timeLbl = HMS(86400)
    /\ since_read = 0 /\ drawn.widget = "rings"

\* ------------------------------------------------------------ C4
\* the source of each bar's reading
SourceOf(s, b) ==
    CASE b = "cpu_util" -> s.cpu
      [] b = "cpu_temp" -> s.temp
      [] b = "battery" -> s.batt
      [] b = "mem" -> s.mem
      [] OTHER -> s.disk

SomeSourceThrows(s) == \E b \in Bars : SourceOf(s, b).k = "throw"

\* the synthetic value of a bar: random.uniform in [8,88], [22,86], [12,88],
\* 48 + 12 sin + jitter, 70 + 8 sin + jitter (nov.py: 60 + 0.2 times that)
Synthetic(s, b) ==
    CASE b = "cpu_util" -> s.rnd.cpu
      [] b = "cpu_temp" -> Pct(48) + 12 * s.rnd.sinT + s.rnd.temp
      [] b = "battery" ->
            IF variant = "nov"
            THEN Pct(60) + (Pct(70) + 8 * s.rnd.sinB + s.rnd.batt) \div 5
            ELSE Pct(70) + 8 * s.rnd.sinB + s.rnd.batt
      [] b = "mem" -> s.rnd.mem
      [] OTHER -> s.rnd.disk

\* C4 as stated: a cycle in which the stats provider throws leaves every gauge at
\* its value of the previous cycle.
C4_KeepsPrevious ==
    [][\A s \in Samples :
          psutil /\ SomeSourceThrows(s) /\ SampleStatsWith(s) => value' = value]_vars

\* C4 amended: a cycle in which the stats provider throws sets the gauge of each
\* metric whose read threw to that metric's synthetic value, which lies in [0,100];
\* no exception leaves sampleStats.
C4_SyntheticOnThrow ==
    [][\A s \in Samples :
          psutil /\ SomeSourceThrows(s) /\ SampleStatsWith(s) =>
              /\ ~escaped'
              /\ \A b \in Bars :
                    SourceOf(s, b).k = "throw" =>
                        /\ value'[b] = Synthetic(s, b)
                        /\ value'[b] >= Pct(0) /\ value'[b] <= Pct(100)]_vars

\* every source threw in a cycle after one that had read the counters
C4_Witness ==
    /\ psutil /\ pc = "running" /\ last_bytes = Io1 /\ since_read >= 1
    /\ value["cpu_util"] = 80 /\ value["mem"] = 220 /\ value["disk"] = 880

\* ------------------------------------------------------------ C5
\* what a bar shows for a reading that arrived
Reading(s, b) ==
    LET v == SourceOf(s, b).v
    IN  IF b = "battery" /\ variant = "nov"
        THEN clamp(Pct(60) + v \div 5, Pct(0), Pct(100))
        ELSE clamp(v, Pct(0), Pct(100))

\* C5: in any sampleStats cycle no exception leaves the handler, every gauge whose
\* own source answered shows that answer whatever the other sources did, the address
\* and counter reads that answered are shown and stored, and the animate timer stays
\* able to fire.
C5_FailuresLocal ==
    [][\A s \in Samples :
          psutil /\ SampleStatsWith(s) =>
              /\ ~escaped'
              /\ \A b \in Bars : SourceOf(s, b).k = "ok" => value'[b] = Reading(s, b)
              /\ s.addrs.k = "ok" => net_ip' = scanAddrs(s.addrs.v, 1, "0.0.0.0")
              /\ s.io.k = "ok" => last_bytes' = s.io.v
              /\ animTimer' /\ Delivering']_vars

\* the CPU read threw, memory and disk were still updated in that cycle, and
\* animate ran afterwards or before
C5_Witness ==
    /\ psutil /\ ~escaped /\ ticks >= 1
    /\ value["cpu_util"] = 80 /\ value["mem"] = 505 /\ value["disk"] = 755

\* ------------------------------------------------------------ C6
\* C6 as stated: while there is no previous counter sample, the throughput labels
\* keep their initial "0.0 MB/s".
C6_NoPreviousNoThroughput == last_bytes = None => net_up = 0 /\ net_down = 0

\* C6 amended: with psutil present, a step taken while there is no previous counter
\* sample (the first successful read included) leaves both throughput labels at
\* their initial "0.0 MB/s".
C6_FirstSampleSkipped ==
    [][psutil /\ last_bytes = None =>
          /\ net_up' = 0 /\ net_down' = 0
          /\ net_up' = net_up /\ net_down' = net_down]_vars

\* the first read of the counters has been stored and both labels still show 0.0
C6_Witness ==
    /\ psutil /\ pc = "running" /\ last_bytes = Io2 /\ net_up = 0 /\ net_down = 0

\* ------------------------------------------------------------ C7
\* (bytes / seconds / 1,048,576) MB/s, formatted to one decimal, in tenths
Rate(bytes, seconds) == RoundHalfEven(bytes * 10, BytesPerMB * seconds)

\* C7: a sample tick that has a previous sample shows, per direction,
\* (bytes_now - bytes_previous) / elapsed_seconds / 1,048,576 MB/s.
C7_RatePerSecond ==
    [][psutil /\ last_bytes # None /\ since_read >= 1 /\ since_read' = 0 =>
          /\ net_up' = Rate(last_bytes'[1] - last_bytes[1], since_read)
          /\ net_down' = Rate(last_bytes'[2] - last_bytes[2], since_read)]_vars

\* ------------------------------------------------------------ C8
\* C8: animate, sampleStats and the clock tick commute pairwise on every reachable
\* state, for every reading and wall-clock value, and while the event loop runs
\* each of the three timers is active whatever the others have done.
C8_OrderInsensitive ==
    /\ \A now1 \in Clocks, now2 \in Clocks :
          animate(tick(St, now1, now2)) = tick(animate(St), now1, now2)
    /\ \A s \in Samples :
          LET sampled == sampleStats(St, s)
          IN  /\ animate(sampled) = sampleStats(animate(St), s)
              /\ \A now1 \in Clocks, now2 \in Clocks :
                    tick(sampled, now1, now2) = sampleStats(tick(St, now1, now2), s)
    /\ Delivering => animTimer /\ statTimer /\ clockTimer

\* all three have run, the last sample with a counter delta on display
C8_Witness ==
    /\ pc = "running" /\ ticks >= 2 /\ timeLbl = HMS(86399)
    /\ psutil /\ last_bytes = Io3 /\ net_up = 2 /\ net_down = 8

\* ------------------------------------------------------------ C9
\* C9: once the window has closed, the three recurring timers and the camera timer
\* are stopped and the camera is released.
C9_AllStoppedOnClose ==
    pc \in {"closed", "exited"} =>
        ~animTimer /\ ~statTimer /\ ~clockTimer /\ ~camTimer /\ ~capture

\* ------------------------------------------------------------ C10
\* the local phase of ring i
LocalPhase(i) == ringBase(phase, RingOffsets[i])

C11_RenderRepeatable ==
    [][drawn'.widget = "rings" /\ PaintRings =>
          /\ UNCHANGED <<psutil, variant, pc, hud, timers, camera, ticks>>
          /\ (/\ drawn.widget = "rings"
              /\ drawn.out[1] = drawn'.out[1]
              /\ drawn.out[3][1].base = phase) => drawn' = drawn]_vars

\* the ring field stands painted at the present phase, after animate ticks and after a
\* sampleStats run that changed the processor gauge
C11_Witness ==
    /\ drawn.widget = "rings"
    /\ drawn.out[3][1].base = phase
    /\ phase > 0
    /\ value["cpu_util"] = 80
    /\ drawn.out[3][1].dots[dots \div 2].a > 40

\* the gradient the three percentage gauges are built with
GaugeStyle == [cpu_util |-> "rainbow", mem |-> "pink", disk |-> "green"]

\* C12: with psutil present, a sampleStats cycle whose CPU, memory and disk reads
\* answer values within [0, 100] leaves exactly those values in the three gauges, and
\* a paint of such a gauge shows the whole part of its value followed by "%", the
\* gradient of its style (rainbow for CPU, pink for memory, green for disk) and a fill
\* of track width * value / 100: no fill at 0, the whole track at 100.
C12_GaugeShowsReading ==
    [][/\ \A s \in RenderSamples :
             psutil /\ SampleStatsWith(s) =>
                 \A b \in DOMAIN GaugeStyle :
                     (SourceOf(s, b).k = "ok" /\ SourceOf(s, b).v \in Pct(0)..Pct(100))
                         => value'[b] = SourceOf(s, b).v
       /\ \A b \in DOMAIN GaugeStyle :
             drawn'.widget = b /\ PaintBar =>
                 \E w \in Widths :
                     /\ drawn'.out = <<(w - 16) * value[b],
                                       Gradient(GaugeStyle[b]),
                                       <<value[b] \div 10, "%">> >>
                     /\ value[b] = Pct(0) => drawn'.out[1] = 0
                     /\ value[b] = Pct(100) => drawn'.out[1] = (w - 16) * 1000]_vars

\* psutil answered an idle processor and a full disk, and the disk gauge stands
\* painted with the whole track filled and the text "100%"
C12_Witness ==
    /\ psutil
    /\ value["cpu_util"] = Pct(0) /\ value["mem"] = 505 /\ value["disk"] = Pct(100)
    /\ drawn.widget = "disk"
    /\ drawn.out = <<(216 - 16) * 1000, Gradient("green"), <<100, "%">> >>

\* the rings as a paint of the present state draws them, and the dots of ring i
RingsNow == ringsPaint(St, <<520, 520>>).out[3]

DotsOf(i) == RingsNow[i].dots

\* C13 as stated: for any ring and any phase the opacity of dot k is the one that its
\* index fraction k/36, taken before the drift term is added, gives: 120 for the
\* dot of index fraction 0.5, 40 for the dot of index fraction 0.
C13_OpacityByIndex ==
    \A i \in 1..Len(RingOffsets), k \in 0..(dots - 1) :
        /\ DotsOf(i)[k].a = dotAlpha((k * TurnUnit) \div dots)
        /\ 2 * k = dots => DotsOf(i)[k].a = 120
        /\ k = 0 => DotsOf(i)[k].a = 40

\* C13: for any ring and any phase the opacity of a dot follows the fraction of a turn
\* t at which the dot is drawn, the drift term included: it lies within [40, 120], is
\* 120 exactly when t = 0.5, is 80 at t = 0.25 and t = 0.75, is 40 at t = 0, does not
\* fall from one dot to the next while t rises towards 0.5 and does not rise from one
\* dot to the next beyond 0.5.
C13_OpacityByAngle ==
    LET rings == RingsNow
    IN  \A i \in 1..Len(RingOffsets) :
            LET ds == rings[i].dots
            IN  /\ \A k \in 0..(dots - 1) :
                      LET dot == ds[k]
                      IN  /\ dot.t = dotT(LocalPhase(i), k)
                          /\ dot.t \in 0..(TurnUnit - 1)
                          /\ dot.a \in 40..120
                          /\ dot.a = 120 <=> 2 * dot.t = TurnUnit
                          /\ (4 * dot.t = TurnUnit \/ 4 * dot.t = 3 * TurnUnit) => dot.a = 80
                          /\ dot.t = 0 => dot.a = 40
                /\ \A k \in 0..(dots - 2) :
                      LET dot == ds[k]
                          next == ds[k + 1]
                      IN  /\ (dot.t < next.t /\ 2 * next.t <= TurnUnit) => dot.a <= next.a
                          /\ (dot.t < next.t /\ 2 * dot.t >= TurnUnit) => dot.a >= next.a

\* the second ring stands at local phase 0, so its dot 18 is drawn at t = 0.5 with
\* opacity 120 and its dot 0 at t = 0 with opacity 40, while dot 18 of the first
\* ring has drifted past 0.5 and is dimmer
C13_Witness ==
    /\ ticks = 108
    /\ LocalPhase(2) = 0
    /\ DotsOf(2)[dots \div 2].t * 2 = TurnUnit /\ DotsOf(2)[dots \div 2].a = 120
    /\ DotsOf(2)[0].t = 0 /\ DotsOf(2)[0].a = 40
    /\ DotsOf(1)[dots \div 2].t * 2 > TurnUnit /\ DotsOf(1)[dots \div 2].a < 120

\* the animate ticks of one rotation: the first tick count whose steps sum past 1.0
RotationTicks == (PhaseUnit + PhaseStep - 1) \div PhaseStep

\* the time the animate timer takes over n ticks when every tick fires on its interval
Millis(n) == n * AnimInterval

\* C14 as stated: the phase first wraps about 13.3 seconds after it left 0, that is
\* after about 13.3 s / 16 ms animate ticks (taken to within a tenth either way).
C14_RotationThirteenSeconds ==
    [][phase' < phase =>
          /\ 10 * Millis(ticks') >= 9 * 13300
          /\ 10 * Millis(ticks') <= 11 * 13300]_vars

\* C14: the phase rises on every animate tick before tick 134 and first wraps on tick
\* 134 = ceil(1/0.0075), which at 16 ms a tick is 2144 ms after it left 0: one rotation
\* takes about 2.1 seconds, not 13.3.
C14_RotationTwoSeconds ==
    [][/\ (ticks' = ticks + 1 /\ ticks' < RotationTicks) => phase' > phase
       /\ (ticks' = ticks + 1 /\ ticks' = RotationTicks) => phase' < phase
       /\ phase' < phase =>
             /\ ticks' = RotationTicks
             /\ RotationTicks = 134
             /\ Millis(ticks') = 2144]_vars

\* the phase has just wrapped for the first time, 2144 ms of animate ticks after 0
C14_Witness ==
    /\ ticks = RotationTicks
    /\ phase < PhaseStep
    /\ Millis(ticks) = 2144

\* the counter readings a successful read can return
IoKnown == {s.io.v : s \in {x \in Samples : x.io.k = "ok"}}

\* C15: with psutil present, last_bytes is None or a reading of the counters and never
\* returns to None; every sampleStats run whose counter read answers, the one of
\* __init__ included, stores exactly that reading in last_bytes; a run whose counter
\* read throws leaves last_bytes and both throughput labels as they were; and nothing
\* else changes last_bytes.
C15_LastBytesIsLastRead ==
    [][psutil =>
          /\ last_bytes' \in {None} \cup IoKnown
          /\ last_bytes' = None => last_bytes = None
          /\ \A s \in Samples :
                \/ IF s.io.k = "ok"
                   THEN last_bytes' = s.io.v
                   ELSE /\ last_bytes' = last_bytes
                        /\ net_up' = net_up /\ net_down' = net_down
                \/ ~(SampleStatsWith(s) \/ ConstructOn({s}))
          /\ last_bytes' # last_bytes =>
                \E s \in Samples :
                    /\ s.io.k = "ok" /\ last_bytes' = s.io.v
                    /\ SampleStatsWith(s) \/ ConstructOn({s})]_vars

\* the third reading of the counters has replaced the second, and the upload label
\* shows their difference
C15_Witness ==
    /\ psutil /\ pc = "running"
    /\ last_bytes = Io3
    /\ net_up = FmtMB(Io3[1] - Io2[1]) /\ net_down = FmtMB(Io3[2] - Io2[2])
    /\ since_read >= 1

\* C16: in nova.py nothing restarts the camera timer and only closeEvent stops it; the
\* capture is released only in a step that leaves the timer stopped; once closeEvent
\* has run the timer is off and the handle released, so update_frame (which fires only
\* on that timer) reads no released capture. A frame step changes the video label and
\* nothing else; a failed read leaves even the label, and a face whose classification
\* throws is still boxed, with the frame shown, the timer running and the next frame
\* due.
C16_CameraTeardown ==
    [][variant = "nova" =>
          /\ camTimer' => camTimer
          /\ (camTimer /\ ~camTimer') => (pc = "running" /\ pc' = "closed")
          /\ (capture /\ ~capture') => ~camTimer'
          /\ pc' \in {"closed", "exited"} => (~camTimer' /\ ~capture')
          /\ (Delivering' /\ camTimer') => pc' = "running"
          /\ video_label' # video_label =>
                /\ UpdateFrame
                /\ camTimer /\ capture /\ pc = "running"
                /\ UNCHANGED <<phase, value, hud, timers, camTimer, capture, pc>>
          /\ \A f \in Frames :
                LET shown == update_frame(video_label, capture, f)
                IN  /\ ~f.ret => shown = video_label
                    /\ (f.ret /\ capture) =>
                          /\ shown.frame /\ Len(shown.faces) = Len(f.faces)
                          /\ \A i \in 1..Len(f.faces) :
                                /\ shown.faces[i].box
                                /\ f.faces[i].k # "ok" => shown.faces[i].text = ""]_vars

\* the window of nova.py has closed after animate ticks and after a frame with a face
\* whose classification threw was shown: the timer is off and the capture released
C16_Witness ==
    /\ variant = "nova" /\ pc = "closed"
    /\ ~camTimer /\ ~capture
    /\ video_label.frame /\ Len(video_label.faces) = 2
    /\ video_label.faces[2].box /\ video_label.faces[2].text = ""
    /\ ticks >= 1 /\ phase = ticks * PhaseStep
====
